---- MODULE Spec2Model ----
(***************************************************************************)
(* Model of TextSplitter (splitter.py): construction, the split generator  *)
(* and the _split_long_chunk fallback generator, with the default          *)
(* character-count length function.  Strings are sequences of one-         *)
(* character strings; "" is << >>.                                         *)
(***************************************************************************)
EXTENDS Integers, Sequences, FiniteSets, TLC

VARIABLES inst, ctor_arg, max_chunk_size, force_split_pattern, gen, book

vars == <<inst, ctor_arg, max_chunk_size, force_split_pattern, gen, book>>

(* ------------------------------ bounds --------------------------------- *)
MaxLen == 6
MaxSize == 4
MaxShareLen == 3
MaxRuns == 3
MaxChunks == MaxLen + 1

Chars == {"a", " ", ",", ".", "\n"}
Texts == UNION {[1..n -> Chars] : n \in 0..MaxLen}
Sizes == {-1, 0} \cup (1..MaxSize)
Patterns == {"\n", "None"}
Gens == {1, 2}
\* generate_book: the number of chunks split yields for each chapter file
ChunkCount == <<2, 0, 1>>
\* texts of the two generators that share one instance
ShareTexts == UNION {[1..n -> Chars] : n \in 0..MaxShareLen}
OtherTexts == {<<"a", ".", " ", "a">>, <<"a", " ", "a", " ", "a">>,
               <<"a", ",", "a", " ", "a">>, <<"a", "\n", "a", "a">>}

(* ------------------------- character classes --------------------------- *)
Whitespace == {" ", "\t", "\n"}
SentenceEnd == {".", "!", "?"}
MinorPunct == {",", ";", ":"}

Min(a, b) == IF a < b THEN a ELSE b

(* ----------------------- Python string operations ---------------------- *)
length_fn(s) == Len(s)

RECURSIVE lstrip(_)
lstrip(s) ==
  IF s = << >> THEN s
  ELSE IF Head(s) \in Whitespace THEN lstrip(Tail(s)) ELSE s

RECURSIVE rstrip(_)
rstrip(s) ==
  IF s = << >> THEN s
  ELSE IF s[Len(s)] \in Whitespace THEN rstrip(SubSeq(s, 1, Len(s) - 1)) ELSE s

strip(s) == rstrip(lstrip(s))

\* s[i:j] for 0 <= i, 0 <= j
Slice(s, i, j) ==
  IF i >= Min(j, Len(s)) THEN << >> ELSE SubSeq(s, i + 1, Min(j, Len(s)))

\* s[i:]
SliceFrom(s, i) == Slice(s, i, Len(s))

\* str.split(): the whitespace-delimited words of s
RECURSIVE str_split(_)
str_split(s) ==
  LET t == lstrip(s) IN
  IF t = << >> THEN << >>
  ELSE LET n == CHOOSE k \in 1..Len(t) :
                  /\ \A j \in 1..k : t[j] \notin Whitespace
                  /\ (k = Len(t) \/ t[k + 1] \in Whitespace)
       IN <<SubSeq(t, 1, n)>> \o str_split(SliceFrom(t, n))

\* re.split(c, s) for a one-character pattern c
RECURSIVE re_split_char(_, _)
re_split_char(s, c) ==
  IF \E i \in 1..Len(s) : s[i] = c
  THEN LET i == CHOOSE k \in 1..Len(s) :
                  s[k] = c /\ \A j \in 1..(k - 1) : s[j] # c
       IN <<SubSeq(s, 1, i - 1)>> \o re_split_char(SliceFrom(s, i), c)
  ELSE <<s>>

\* re.split(r"(?<=[T])\s+", s): cut at every maximal whitespace run that
\* starts right after a character of T
RECURSIVE re_split_sentences(_, _)
re_split_sentences(s, T) ==
  LET starts == {i \in 2..Len(s) : s[i] \in Whitespace /\ s[i - 1] \in T} IN
  IF starts = {} THEN <<s>>
  ELSE LET i == CHOOSE k \in starts : \A j \in starts : k <= j
           e == CHOOSE k \in i..Len(s) :
                  /\ \A j \in i..k : s[j] \in Whitespace
                  /\ (k = Len(s) \/ s[k + 1] \notin Whitespace)
       IN <<SubSeq(s, 1, i - 1)>> \o re_split_sentences(SliceFrom(s, e), T)

(* --------------------------- TextSplitter ------------------------------ *)
\* a constructor that rejects only negative sizes
ValidSizeNonNegative(m) == ~(m < 0)

\* __init__: the guard of the ValueError
ValidSize(m) == ~(m <= 0)

\* split: the empty-input return
IsBlank(s) == s = << >> \/ strip(s) = << >>

\* a split that ignores the force-split pattern
BlocksWhole(text, pattern) == <<text>>

\* split: blocks of the text
Blocks(text, pattern) ==
  IF pattern # "None" THEN re_split_char(text, pattern) ELSE <<text>>

\* split: the sentence terminators of sentence_split_regex
Terminators(pattern) ==
  IF pattern # "None" THEN SentenceEnd ELSE SentenceEnd \cup {"\n"}

\* split, case 1: the sentence alone is too long
TooLong(s, limit) == length_fn(s) > limit

\* a case 2 that already emits when the limit is reached exactly
OverflowsAtLimit(current_chunk, sentence, limit) ==
  LET separator == IF current_chunk # << >> THEN <<" ">> ELSE << >> IN
  length_fn(current_chunk \o separator \o sentence) >= limit

\* a case 2 that forgets the separating space when it measures
OverflowsNoSeparator(current_chunk, sentence, limit) ==
  length_fn(current_chunk \o sentence) > limit

\* split, case 2: the sentence does not fit behind the accumulator
Overflows(current_chunk, sentence, limit) ==
  LET separator == IF current_chunk # << >> THEN <<" ">> ELSE << >> IN
  length_fn(current_chunk \o separator \o sentence) > limit

\* _split_long_chunk: the word scan that estimates the cut-off
RECURSIVE CutOffScan(_, _, _, _)
CutOffScan(words, limit, current_len, estimated_cut_off) ==
  IF words = << >> THEN estimated_cut_off
  ELSE LET word == Head(words)
           word_len == length_fn(word) + (IF current_len > 0 THEN 1 ELSE 0)
       IN IF current_len + word_len > limit THEN estimated_cut_off
          ELSE CutOffScan(Tail(words), limit, current_len + word_len,
                          estimated_cut_off + Len(word) + 1)

EstimatedCutOff(current_chunk, limit) ==
  CutOffScan(str_split(current_chunk), limit, 0, 0)

CutText(current_chunk, limit) ==
  rstrip(Slice(current_chunk, 0, EstimatedCutOff(current_chunk, limit)))

\* _split_long_chunk: 0-based position of the last [,;:] of cut_text, or -1
LastPunctuationPos(cut_text) ==
  LET ps == {i \in 1..Len(cut_text) : cut_text[i] \in MinorPunct} IN
  IF ps = {} THEN -1
  ELSE (CHOOSE p \in ps : \A q \in ps : q <= p) - 1

\* _split_long_chunk: one iteration of the while loop
LongIteration(current_chunk, limit) ==
  LET cut_text == CutText(current_chunk, limit)
      last_punctuation_pos == LastPunctuationPos(cut_text)
  IN IF last_punctuation_pos # -1
     THEN LET split_point == last_punctuation_pos + 1 IN
          [yield |-> strip(Slice(current_chunk, 0, split_point)),
           rest  |-> strip(SliceFrom(current_chunk, split_point))]
     ELSE [yield |-> cut_text,
           rest  |-> strip(SliceFrom(current_chunk, Len(cut_text)))]

(* ------------------------- generator state ----------------------------- *)
\* generate_book: the files of the output directory and the position of the
\* current run
NChapters == Len(ChunkCount)
TempKeys == UNION {{<<c, i>> : i \in 1..ChunkCount[c]} : c \in 1..NChapters}
NoFile == [exists |-> FALSE, frames |-> << >>]

NoBook ==
  [run |-> 0, pc |-> "idle", ch |-> 1, i |-> 1, j |-> 1, temp_files |-> << >>,
   temp |-> [k \in TempKeys |-> "absent"],
   final |-> [c \in 1..NChapters |-> NoFile]]

Idle ==
  [pc |-> "idle", text |-> << >>, blocks |-> << >>, bi |-> 1,
   sentences |-> << >>, si |-> 1, current_chunk |-> << >>,
   long_chunk |-> << >>, out |-> << >>]

Init ==
  /\ inst = "none"
  /\ ctor_arg = 0
  /\ max_chunk_size = 0
  /\ force_split_pattern = "None"
  /\ gen = [g \in Gens |-> Idle]
  /\ book = NoBook

\* TextSplitter(max_chunk_size=m, force_split_pattern=p)
Construct ==
  /\ inst = "none"
  /\ \E m \in Sizes, p \in Patterns :
       /\ ctor_arg' = m
       /\ IF ValidSize(m)
          THEN /\ inst' = "ok"
               /\ max_chunk_size' = m
               /\ force_split_pattern' = p
          ELSE /\ inst' = "ValueError"
               /\ UNCHANGED <<max_chunk_size, force_split_pattern>>
  /\ UNCHANGED <<gen, book>>

\* splitter.split(text): a new generator, not yet started
NewGenerator(text) == [Idle EXCEPT !.pc = "start", !.text = text]

SplitCallFrom(g, T) ==
  /\ inst = "ok"
  /\ gen[g].pc = "idle"
  /\ \E text \in T : gen' = [gen EXCEPT ![g] = NewGenerator(text)]
  /\ UNCHANGED <<inst, ctor_arg, max_chunk_size, force_split_pattern, book>>

SplitCall(g) == SplitCallFrom(g, Texts)

\* split, up to the loop over the blocks
BeginStep(l, pattern) ==
  IF IsBlank(l.text) THEN [l EXCEPT !.pc = "done"]
  ELSE [l EXCEPT !.pc = "block", !.blocks = Blocks(l.text, pattern), !.bi = 1]

\* split: the head of one iteration of the loop over the blocks
BlockStep(l, pattern) ==
  IF l.bi > Len(l.blocks) THEN [l EXCEPT !.pc = "done"]
  ELSE LET block == l.blocks[l.bi] IN
       IF IsBlank(block) THEN [l EXCEPT !.bi = l.bi + 1]
       ELSE [l EXCEPT !.pc = "sentence",
                      !.sentences = re_split_sentences(strip(block), Terminators(pattern)),
                      !.si = 1,
                      !.current_chunk = << >>]

\* split: one iteration of the loop over the sentences
SentenceStep(l, limit) ==
  LET sentence == strip(l.sentences[l.si]) IN
  IF sentence = << >> THEN [l EXCEPT !.si = l.si + 1]
  ELSE IF TooLong(sentence, limit)
  THEN [l EXCEPT !.pc = "long",
                 !.long_chunk = sentence,
                 !.current_chunk = << >>,
                 !.out = IF l.current_chunk # << >>
                         THEN Append(l.out, l.current_chunk) ELSE l.out]
  ELSE IF Overflows(l.current_chunk, sentence, limit)
  THEN [l EXCEPT !.si = l.si + 1,
                 !.current_chunk = sentence,
                 !.out = Append(l.out, l.current_chunk)]
  ELSE [l EXCEPT !.si = l.si + 1,
                 !.current_chunk =
                    l.current_chunk
                    \o (IF l.current_chunk # << >> THEN <<" ">> ELSE << >>)
                    \o sentence]

\* split: the flush after the last sentence of a block
FlushStep(l) ==
  [l EXCEPT !.pc = "block",
            !.bi = l.bi + 1,
            !.out = IF l.current_chunk # << >>
                    THEN Append(l.out, l.current_chunk) ELSE l.out]

\* _split_long_chunk: one iteration of the while loop
LongStep(l, limit) ==
  LET r == LongIteration(l.long_chunk, limit) IN
  [l EXCEPT !.long_chunk = r.rest, !.out = Append(l.out, r.yield)]

\* _split_long_chunk: the final remainder, then back to the sentence loop
LongFinalStep(l) ==
  [l EXCEPT !.pc = "sentence",
            !.si = l.si + 1,
            !.long_chunk = << >>,
            !.out = IF l.long_chunk # << >>
                    THEN Append(l.out, l.long_chunk) ELSE l.out]

Frame == UNCHANGED <<inst, ctor_arg, max_chunk_size, force_split_pattern, book>>

Begin(g) ==
  /\ gen[g].pc = "start"
  /\ gen' = [gen EXCEPT ![g] = BeginStep(gen[g], force_split_pattern)]
  /\ Frame

NextBlock(g) ==
  /\ gen[g].pc = "block"
  /\ gen' = [gen EXCEPT ![g] = BlockStep(gen[g], force_split_pattern)]
  /\ Frame

Sentence(g) ==
  /\ gen[g].pc = "sentence"
  /\ gen[g].si <= Len(gen[g].sentences)
  /\ Len(gen[g].out) < MaxChunks
  /\ gen' = [gen EXCEPT ![g] = SentenceStep(gen[g], max_chunk_size)]
  /\ Frame

BlockFlush(g) ==
  /\ gen[g].pc = "sentence"
  /\ gen[g].si > Len(gen[g].sentences)
  /\ Len(gen[g].out) < MaxChunks
  /\ gen' = [gen EXCEPT ![g] = FlushStep(gen[g])]
  /\ Frame

\* a fallback iteration that also bumps the limit kept on the instance
LongIterWritesSelf(g) ==
  /\ gen[g].pc = "long"
  /\ TooLong(gen[g].long_chunk, max_chunk_size)
  /\ Len(gen[g].out) < MaxChunks
  /\ gen' = [gen EXCEPT ![g] = LongStep(gen[g], max_chunk_size)]
  /\ max_chunk_size' = max_chunk_size + 1
  /\ UNCHANGED <<inst, ctor_arg, force_split_pattern, book>>

LongIter(g) ==
  /\ gen[g].pc = "long"
  /\ TooLong(gen[g].long_chunk, max_chunk_size)
  /\ Len(gen[g].out) < MaxChunks
  /\ gen' = [gen EXCEPT ![g] = LongStep(gen[g], max_chunk_size)]
  /\ Frame

LongFinal(g) ==
  /\ gen[g].pc = "long"
  /\ ~TooLong(gen[g].long_chunk, max_chunk_size)
  /\ Len(gen[g].out) < MaxChunks
  /\ gen' = [gen EXCEPT ![g] = LongFinalStep(gen[g])]
  /\ Frame

Next ==
  \/ Construct
  \/ SplitCall(1)
  \/ Begin(1)
  \/ NextBlock(1)
  \/ Sentence(1)
  \/ BlockFlush(1)
  \/ LongIter(1)
  \/ LongFinal(1)

Spec == Init /\ [][Next]_vars

(* ---------------- two generators sharing one instance ------------------ *)
SharedCall(g) == SplitCallFrom(g, IF g = 1 THEN ShareTexts ELSE OtherTexts)

NextShare ==
  \/ Construct
  \/ \E g \in Gens :
       \/ SharedCall(g)
       \/ Begin(g)
       \/ NextBlock(g)
       \/ Sentence(g)
       \/ BlockFlush(g)
       \/ LongIter(g)
       \/ LongFinal(g)

SpecShare == Init /\ [][NextShare]_vars

(* ------------------------- generate_book ------------------------------- *)
Splitter == UNCHANGED <<inst, ctor_arg, max_chunk_size, force_split_pattern, gen>>

InChapter(pc) == book.pc = pc /\ book.ch <= NChapters

\* a run of generate_book starts with the first chapter file
StartRun ==
  /\ book.pc = "idle"
  /\ book.run < MaxRuns
  /\ book' = [book EXCEPT !.run = book.run + 1, !.pc = "chapter", !.ch = 1]
  /\ Splitter

\* the loop over the chapter files is exhausted
EndRun ==
  /\ book.pc = "chapter"
  /\ book.ch > NChapters
  /\ book' = [book EXCEPT !.pc = "idle"]
  /\ Splitter

\* the final .wav of the chapter exists: skip the chapter
SkipChapter ==
  /\ InChapter("chapter")
  /\ book.final[book.ch].exists
  /\ book' = [book EXCEPT !.ch = book.ch + 1]
  /\ Splitter

\* read the chapter, make its temporary directory, start the chunk loop
OpenChapter ==
  /\ InChapter("chapter")
  /\ ~book.final[book.ch].exists
  /\ book' = [book EXCEPT !.pc = "chunk", !.i = 1, !.temp_files = << >>]
  /\ Splitter

\* the temporary .wav of the chunk exists: skip its generation
SkipChunk ==
  /\ InChapter("chunk")
  /\ book.i <= ChunkCount[book.ch]
  /\ book.temp[<<book.ch, book.i>>] # "absent"
  /\ book' = [book EXCEPT !.temp_files = Append(book.temp_files, book.i),
                           !.i = book.i + 1]
  /\ Splitter

\* model.generate(text_chunk)
GenerateChunk ==
  /\ InChapter("chunk")
  /\ book.i <= ChunkCount[book.ch]
  /\ book.temp[<<book.ch, book.i>>] = "absent"
  /\ book' = [book EXCEPT !.pc = "save"]
  /\ Splitter

\* ta.save creates the temporary file and starts to write it
SaveOpen ==
  /\ InChapter("save")
  /\ book.temp[<<book.ch, book.i>>] = "absent"
  /\ book' = [book EXCEPT !.temp[<<book.ch, book.i>>] = "partial"]
  /\ Splitter

\* ta.save returns: the temporary file holds the whole chunk
SaveFinish ==
  /\ InChapter("save")
  /\ book.temp[<<book.ch, book.i>>] = "partial"
  /\ book' = [book EXCEPT !.temp[<<book.ch, book.i>>] = "full",
                           !.temp_files = Append(book.temp_files, book.i),
                           !.i = book.i + 1,
                           !.pc = "chunk"]
  /\ Splitter

\* no chunk at all: remove the temporary directory, next chapter
NoAudio ==
  /\ InChapter("chunk")
  /\ book.i > ChunkCount[book.ch]
  /\ book.temp_files = << >>
  /\ book' = [book EXCEPT !.pc = "chapter", !.ch = book.ch + 1]
  /\ Splitter

\* wave.open(final_audio_path, "wb") creates the final file
CombineOpen ==
  /\ InChapter("chunk")
  /\ book.i > ChunkCount[book.ch]
  /\ book.temp_files # << >>
  /\ book' = [book EXCEPT !.pc = "combine", !.j = 1,
                           !.final[book.ch] = [exists |-> TRUE, frames |-> << >>]]
  /\ Splitter

\* the frames of one temporary file are appended to the final file
CombineAppend ==
  /\ InChapter("combine")
  /\ book.j <= Len(book.temp_files)
  /\ LET k == book.temp_files[book.j] IN
     book' = [book EXCEPT !.j = book.j + 1,
                          !.final[book.ch].frames =
                             Append(book.final[book.ch].frames,
                                    <<k, book.temp[<<book.ch, k>>]>>)]
  /\ Splitter

\* the final file is closed
CombineClose ==
  /\ InChapter("combine")
  /\ book.j > Len(book.temp_files)
  /\ book' = [book EXCEPT !.pc = "cleanup"]
  /\ Splitter

\* shutil.rmtree(temp_dir), next chapter
Cleanup ==
  /\ InChapter("cleanup")
  /\ book' = [book EXCEPT !.pc = "chapter", !.ch = book.ch + 1,
                           !.temp = [k \in TempKeys |->
                                       IF k[1] = book.ch THEN "absent"
                                       ELSE book.temp[k]]]
  /\ Splitter

\* an exception or an interrupt ends the run where it is; the files stay
Interrupt ==
  /\ book.pc # "idle"
  /\ book' = [book EXCEPT !.pc = "idle"]
  /\ Splitter

NextPipeline ==
  \/ StartRun
  \/ EndRun
  \/ SkipChapter
  \/ OpenChapter
  \/ SkipChunk
  \/ GenerateChunk
  \/ SaveOpen
  \/ SaveFinish
  \/ NoAudio
  \/ CombineOpen
  \/ CombineAppend
  \/ CombineClose
  \/ Cleanup
  \/ Interrupt

SpecPipeline == Init /\ [][NextPipeline]_vars

(* ------------------- a generator run on its own ------------------------ *)
\* the step a generator takes when it is resumed
Resume(l, limit, pattern) ==
  CASE l.pc = "start" -> BeginStep(l, pattern)
    [] l.pc = "block" -> BlockStep(l, pattern)
    [] l.pc = "sentence" ->
         IF l.si <= Len(l.sentences) THEN SentenceStep(l, limit) ELSE FlushStep(l)
    [] l.pc = "long" ->
         IF TooLong(l.long_chunk, limit) THEN LongStep(l, limit) ELSE LongFinalStep(l)
    [] OTHER -> l

Stopped(l) ==
  \/ l.pc \in {"idle", "done"}
  \/ l.pc \in {"sentence", "long"} /\ Len(l.out) >= MaxChunks

RECURSIVE Run(_, _, _)
Run(l, limit, pattern) ==
  IF Stopped(l) THEN l ELSE Run(Resume(l, limit, pattern), limit, pattern)

\* the chunks list(splitter.split(text)) yields, cut at MaxChunks
AloneChunks(text, limit, pattern) == Run(NewGenerator(text), limit, pattern).out

(* ----------------------------- properties ------------------------------ *)
Chunks(g) == gen[g].out
ChunkSet(g) == {Chunks(g)[i] : i \in 1..Len(Chunks(g))}

IsPrefix(a, b) == Len(a) <= Len(b) /\ SubSeq(b, 1, Len(a)) = a

IsSingleWord(c) == c # << >> /\ \A i \in 1..Len(c) : c[i] \notin Whitespace

HasChar(s, C) == \E i \in 1..Len(s) : s[i] \in C

\* " ".join(chunks)
RECURSIVE JoinSpace(_)
JoinSpace(cs) ==
  IF cs = << >> THEN << >>
  ELSE IF Len(cs) = 1 THEN cs[1]
  ELSE cs[1] \o <<" ">> \o JoinSpace(Tail(cs))

\* s without its whitespace
RECURSIVE Squeeze(_)
Squeeze(s) ==
  IF s = << >> THEN << >>
  ELSE IF Head(s) \in Whitespace THEN Squeeze(Tail(s))
  ELSE <<Head(s)>> \o Squeeze(Tail(s))

IsSubstring(a, b) ==
  \E i \in 0..(Len(b) - Len(a)) : SubSeq(b, i + 1, i + Len(a)) = a

RECURSIVE Flatten(_)
Flatten(ss) == IF ss = << >> THEN << >> ELSE Head(ss) \o Flatten(Tail(ss))

\* C1: every chunk split yields costs at most max_chunk_size, unless it is a
\* single whitespace-free word that alone costs more than the limit.
C1_SizeBound ==
  inst = "ok" =>
    \A c \in ChunkSet(1) : length_fn(c) <= max_chunk_size \/ IsSingleWord(c)

\* C2: once split is exhausted, the words of the chunks joined with single
\* spaces are the words of the input, in the same order.
C2_NoLoss ==
  gen[1].pc = "done" => str_split(JoinSpace(Chunks(1))) = str_split(gen[1].text)

\* C3: every iteration of the fallback loop strictly shrinks the remaining
\* text, so that split terminates.
C3_FallbackShrinks ==
  [][LongIter(1) => Len(gen[1].long_chunk') < Len(gen[1].long_chunk)]_vars

\* C4: no chunk split yields is empty or consists of whitespace only.
C4_NonEmptyChunks == \A c \in ChunkSet(1) : strip(c) # << >>

\* C5: with a force-split pattern configured, no chunk holds text of both
\* sides of a newline: no chunk contains a newline, every chunk is text of
\* one block, and the chunks of the text are the chunks of its blocks, block
\* after block.
C5_HardBoundary ==
  (gen[1].pc # "idle" /\ force_split_pattern # "None") =>
    LET blocks == re_split_char(gen[1].text, force_split_pattern)
        perBlock == [i \in 1..Len(blocks) |->
                       AloneChunks(blocks[i], max_chunk_size, force_split_pattern)]
    IN /\ \A c \in ChunkSet(1) :
            /\ ~HasChar(c, {"\n"})
            /\ \E i \in 1..Len(blocks) : IsSubstring(Squeeze(c), Squeeze(blocks[i]))
       /\ Stopped(gen[1]) => IsPrefix(Chunks(1), Flatten(perBlock))
       /\ gen[1].pc = "done" => Chunks(1) = Flatten(perBlock)

C5_Witness ==
  /\ gen[1].pc = "done"
  /\ force_split_pattern = "\n"
  /\ gen[1].text = <<"a", "\n", "a">>
  /\ max_chunk_size >= Len(gen[1].text)
  /\ Chunks(1) = << <<"a">>, <<"a">> >>

\* C6: for an input that is one word without whitespace or punctuation whose
\* cost exceeds the limit, split yields exactly one chunk, the word itself.
IsPlainWord(s) == IsSingleWord(s) /\ ~HasChar(s, MinorPunct \cup SentenceEnd)

C6_SingleWordOverflow ==
  (gen[1].pc # "idle" /\ IsPlainWord(gen[1].text)
     /\ length_fn(gen[1].text) > max_chunk_size) =>
    /\ Len(Chunks(1)) <= 1
    /\ \A c \in ChunkSet(1) : c = gen[1].text
    /\ (gen[1].pc = "done" => Chunks(1) = <<gen[1].text>>)

\* C7: a fallback iteration on a unit that has a minor punctuation mark
\* within the limit emits the text up to and including the last such mark.
MarksBeforeLimit(s, limit) ==
  {p \in 1..Min(limit, Len(s)) : s[p] \in MinorPunct}

C7_PunctuationCut ==
  [][(LongIter(1) /\ MarksBeforeLimit(gen[1].long_chunk, max_chunk_size) # {}) =>
       LET ps == MarksBeforeLimit(gen[1].long_chunk, max_chunk_size)
           p == CHOOSE q \in ps : \A r \in ps : r <= q
       IN gen[1].out' = Append(gen[1].out, strip(SubSeq(gen[1].long_chunk, 1, p)))
    ]_vars

\* C8: a single sentence without a hard boundary whose cost is at most
\* max_chunk_size comes back as exactly one chunk, the trimmed sentence.
IsSingleSentence(s) ==
  /\ strip(s) # << >>
  /\ ~HasChar(s, {"\n"})
  /\ ~\E i \in 1..(Len(s) - 1) : s[i] \in SentenceEnd /\ s[i + 1] \in Whitespace

C8_ShortSentence ==
  (gen[1].pc # "idle" /\ IsSingleSentence(strip(gen[1].text))
     /\ length_fn(strip(gen[1].text)) <= max_chunk_size) =>
    /\ IsPrefix(Chunks(1), <<strip(gen[1].text)>>)
    /\ (gen[1].pc = "done" => Chunks(1) = <<strip(gen[1].text)>>)

C8_Witness ==
  /\ gen[1].pc = "done"
  /\ gen[1].text = <<" ", "a", " ", "a", " ">>
  /\ max_chunk_size = 3
  /\ Chunks(1) = << <<"a", " ", "a">> >>

\* C9: a non-positive max_chunk_size fails in the constructor, before any
\* instance exists; every split runs with a positive limit and the error is
\* never raised once a split has been called.
C9_ConfigErrorAtConstruction ==
  /\ (inst # "none" /\ ctor_arg <= 0) => inst = "ValueError"
  /\ inst = "ValueError" => \A g \in Gens : gen[g] = Idle
  /\ inst = "ok" => max_chunk_size > 0 /\ max_chunk_size = ctor_arg
  /\ \A g \in Gens : gen[g].pc # "idle" => inst = "ok" /\ max_chunk_size > 0

C9_Witness == inst = "ValueError" /\ ctor_arg = 0 /\ max_chunk_size = 0

\* C10: under any interleaving of two generators of one instance, each
\* generator yields the chunks it yields when it runs alone.
C10_SafeSharing ==
  \A g \in Gens :
    gen[g].pc # "idle" =>
      LET alone == AloneChunks(gen[g].text, ctor_arg, force_split_pattern) IN
      /\ IsPrefix(Chunks(g), alone)
      /\ (gen[g].pc = "done" => Chunks(g) = alone)
      /\ max_chunk_size = ctor_arg

C10_Witness ==
  /\ gen[1].pc = "long" /\ Len(Chunks(1)) >= 1 /\ strip(Chunks(1)[1]) # << >>
  /\ gen[2].pc = "sentence" /\ Len(Chunks(2)) >= 1
  /\ gen[1].text # gen[2].text

\* C11: in the sentence loop the accumulator is emitted exactly when it is
\* not empty and accumulator + " " + next sentence costs more than
\* max_chunk_size; the chunk after it then starts with that sentence;
\* otherwise a sentence that fits is appended behind one separating space.
C11_GreedyAggregation ==
  [][Sentence(1) =>
       LET l == gen[1]
           sentence == strip(l.sentences[l.si])
           A == l.current_chunk
           joined == A \o <<" ">> \o sentence
           yielded == gen'[1].out # l.out
           fallback == gen'[1].pc = "long"
       IN sentence # << >> =>
            /\ yielded <=> (A # << >> /\ length_fn(joined) > max_chunk_size)
            /\ yielded => gen'[1].out = Append(l.out, A)
            /\ fallback <=> length_fn(sentence) > max_chunk_size
            /\ (yielded /\ ~fallback) => gen'[1].current_chunk = sentence
            /\ (~yielded /\ ~fallback) =>
                  gen'[1].current_chunk = IF A = << >> THEN sentence ELSE joined
    ]_vars

C11_Witness ==
  /\ gen[1].text = <<"a", ".", " ", "a", ".">>
  /\ max_chunk_size = 3
  /\ gen[1].pc = "sentence"
  /\ gen[1].si = 3
  /\ Chunks(1) = << <<"a", ".">> >>
  /\ gen[1].current_chunk = <<"a", ".">>

\* C12: in every fallback iteration in which at least one word fits, the
\* text is cut at the end of the last word whose accumulated cost (one
\* separator unit between words) fits within max_chunk_size, never inside a
\* word and never at another word's end, whatever the whitespace between
\* the words.
WordEnds(s) ==
  {i \in 1..Len(s) :
     s[i] \notin Whitespace /\ (i = Len(s) \/ s[i + 1] \in Whitespace)}

KthWordEnd(s, k) ==
  CHOOSE e \in WordEnds(s) : Cardinality({x \in WordEnds(s) : x <= e}) = k

CostOfWords(s, k) ==
  Cardinality({i \in 1..KthWordEnd(s, k) : s[i] \notin Whitespace}) + (k - 1)

FittingWords(s, limit) ==
  Cardinality({k \in 1..Cardinality(WordEnds(s)) : CostOfWords(s, k) <= limit})

C12_CutPointSync ==
  [][(LongIter(1) /\ FittingWords(gen[1].long_chunk, max_chunk_size) >= 1) =>
       LET s == gen[1].long_chunk
           end == KthWordEnd(s, FittingWords(s, max_chunk_size))
       IN /\ Len(CutText(s, max_chunk_size)) = end
          /\ ~HasChar(SubSeq(s, 1, end), MinorPunct) =>
                gen'[1].out = Append(gen[1].out, SubSeq(s, 1, end))
    ]_vars

\* C13: whenever a run of generate_book skips a chapter or a chunk because
\* its file exists, that file is complete: the final .wav holds the audio of
\* every chunk of the chapter in order, the temporary file the whole chunk.
FinalComplete(c) ==
  book.final[c].frames = [k \in 1..ChunkCount[c] |-> <<k, "full">>]

C13_PipelineRecovery ==
  [][/\ SkipChapter => FinalComplete(book.ch)
     /\ SkipChunk => book.temp[<<book.ch, book.i>>] = "full"]_vars

====
